---------------------------- MODULE Spec2Model ----------------------------
(***************************************************************************)
(* Model of the usage-billing dashboard: the snapshot store and the        *)
(* billing routes (src/server/database.ts), the period-close script        *)
(* (src/scripts/begin-period.ts), the billing calculator                   *)
(* (src/server/billing-calculator.ts), the client of the admin API         *)
(* (src/server/api-client.ts) and the period selection of the web client   *)
(* (src/client/components/HistoricalPeriods.tsx).                          *)
(*                                                                         *)
(* Numbers.  Money is kept in integer units of 1/UnitsPerMicro of a        *)
(* micro-dollar, so that toFixed(6) is a real rounding.  A JSON number     *)
(* field is a tagged value: a finite number, a non-finite one (NaN,        *)
(* +-Infinity, or anything Number() turns into NaN), or null/undefined.    *)
(* Timestamps are integer clock ticks; TicksPerSecond ticks make up one    *)
(* second, the resolution of SQLite's datetime().                          *)
(***************************************************************************)
EXTENDS Integers, Sequences, FiniteSets, TLC

VARIABLES
    table,       \* billing_snapshots rows, in insertion (rowid) order
    listing,     \* the rows in the order the getSnapshots query yields them
    now,         \* the wall clock, in ticks
    live,        \* the dataset the upstream admin API serves right now
    snapshots,   \* what db.getSnapshots() returned to the last query
    periods,     \* what the last getPeriods() returned
    selectedPeriod, \* HistoricalPeriods: the selected period, NoPeriod if none
    startData,   \* computePeriodDelta: first argument
    endData,     \* computePeriodDelta: second argument
    meId,        \* computePeriodDelta: third argument (NoId when omitted)
    delta,       \* computePeriodDelta: the returned { users, totalCost, me }
    twin,        \* computePeriodDelta on the same data with the other users'
                 \* ids replaced by pseudonyms
    call,        \* the last getPeriodSummary / getUserDetail call: its
                 \* periodIndex, its live fetches, the snapshots it decoded,
                 \* whether it was asked once or again, and whether its
                 \* index came from a period list older than the store
    summary,     \* what the last getPeriodSummary returned or threw
    detail,      \* what the last getUserDetail returned or threw
    billed,      \* the cost of one user in each of the periods 0..N
    client,      \* ApiClient: the fields token and expiresAt
    loginCall,   \* the running ensureValidToken / login call: its position,
                 \* its retries, the login requests it sent, and the fields
                 \* of the client when it was entered
    dateNow,     \* Date.now() in milliseconds, as the ApiClient reads it
    upstream,    \* the key listing of the admin API, newest key first
    fetch,       \* the running getCurrentCosts call: its position, page,
                 \* totalPages and allItems
    http,        \* the last request served by a billing route: the route,
                 \* the x-api-key header, the index in the path, what the
                 \* key lookups answered, the status of the response and
                 \* the calculator operations invoked
    pc           \* position of the caller: "idle", "periods", "summary",
                 \* "detail", "input", "delta", "billed"

vars == <<table, listing, now, live, snapshots, periods, selectedPeriod,
          startData, endData, meId, delta, twin, call, summary, detail,
          billed, client, loginCall, dateNow, upstream, fetch, http, pc>>

storeVars == <<table, listing, now, live>>
deltaVars == <<startData, endData, meId, delta, twin>>
calcVars == <<call, summary, detail>>
apiVars == <<client, loginCall, dateNow, upstream, fetch, http>>
auxVars == <<billed, apiVars>>

----------------------------------------------------------------------------
(* Bounds *)

MaxSnapshots == 2
MaxTime == 2
TicksPerSecond == 2
UnitsPerMicro == 10
MaxStart == 1
MaxEnd == 2

----------------------------------------------------------------------------
(* Values *)

\* null / undefined of a nullable number (snapshot id, timestamp)
Null == -1

\* an omitted meId (undefined)
NoId == "undefined"

Users == {"u1", "u2"}

Num(n) == [k |-> "num", v |-> n]
NonFinite == [k |-> "nonfinite", v |-> 0]
Missing == [k |-> "missing", v |-> 0]

\* usage.total of a record: cost, tokens, requests
Total(c, t, r) == [cost |-> c, tokens |-> t, requests |-> r]

MkUser(i, n, tot) == [id |-> i, name |-> n, usage |-> [total |-> tot]]


\* The usage.total values the bounded datasets draw from.  Costs carry a
\* sub-micro fraction (4, 15, 26 with UnitsPerMicro = 10), and the malformed
\* ones are negative, non-finite or absent.
Totals ==
    { Total(Num(4), Num(1), Num(2)),
      Total(Num(15), Num(3), Num(1)),
      Total(Num(26), Num(2), Num(3)),
      Total(Num(-10), NonFinite, Missing),
      Total(NonFinite, Num(-1), Num(0)) }

Names == {"Ann"}

Records == {MkUser(i, n, tot) : i \in Users, n \in Names, tot \in Totals}

\* every sequence over S of length at most n
SeqUpTo(S, n) == UNION {[1..k -> S] : k \in 0..n}

\* what the upstream API serves in the system model: no key, or the key u1
\* with usage whose cost is not a whole number of micro-dollars
LiveTotals == { Total(Num(15), Num(3), Num(1)) }
LiveRecords == {u \in Records : u.usage.total \in LiveTotals /\ u.id = "u1"}
LiveDatasets == {<< >>} \cup {<< u >> : u \in LiveRecords}

----------------------------------------------------------------------------
(* JSON text: the value and the number of encoding layers around it *)

JSONstringify(value) == [layers |-> 1, data |-> value]

----------------------------------------------------------------------------
(* The snapshot store: src/server/database.ts *)

\* new Date().toISOString()
toISOString(t) == t

\* SQLite datetime(created_at): the timestamp cut to whole seconds
datetime(created_at) == created_at \div TicksPerSecond

\* INSERT INTO billing_snapshots; the new row gets the next AUTOINCREMENT id
insertSnapshot(t, rawJson, clock) ==
    Append(t, [id |-> Len(t) + 1,
               created_at |-> toISOString(clock),
               timezone |-> "Asia/Shanghai",
               raw_json |-> rawJson])

\* SELECT ... ORDER BY datetime(created_at) ASC: every row once, ordered by
\* the second of creation; rows of the same second come in an order the query
\* does not fix, so each such order is a possible result.
getSnapshots(t) ==
    LET n == Len(t)
        perms == {f \in [1..n -> 1..n] : \A i, j \in 1..n : i # j => f[i] # f[j]}
        sorted(f) == \A i \in 1..(n - 1) :
                        datetime(t[f[i]].created_at) <= datetime(t[f[i + 1]].created_at)
    IN  {[i \in 1..n |-> t[f[i]]] : f \in {g \in perms : sorted(g)}}

----------------------------------------------------------------------------
(* The period deriver: BillingCalculator.getPeriods *)

PeriodInfo(index, startSnapshotId, startAt, endAt, isCurrent) ==
    [index |-> index, startSnapshotId |-> startSnapshotId,
     startAt |-> startAt, endAt |-> endAt, isCurrent |-> isCurrent]

\* getPeriods with the snapshot-to-snapshot loop stopping one short
getPeriods_shortLoop(snaps) ==
    LET length == Len(snaps)
    IN  IF length = 0
        THEN << PeriodInfo(0, Null, Null, Null, TRUE) >>
        ELSE << PeriodInfo(length, snaps[length].id, snaps[length].created_at,
                           Null, TRUE) >>
             \o << PeriodInfo(0, Null, Null, snaps[1].created_at, FALSE) >>
             \o [i \in 1..(length - 2) |->
                    PeriodInfo(i, snaps[i].id, snaps[i].created_at,
                               snaps[i + 1].created_at, FALSE)]

\* getPeriods with a historical period starting at its own end snapshot
getPeriods_startAtEnd(snaps) ==
    LET length == Len(snaps)
    IN  IF length = 0
        THEN << PeriodInfo(0, Null, Null, Null, TRUE) >>
        ELSE << PeriodInfo(length, snaps[length].id, snaps[length].created_at,
                           Null, TRUE) >>
             \o << PeriodInfo(0, Null, Null, snaps[1].created_at, FALSE) >>
             \o [i \in 1..(length - 1) |->
                    PeriodInfo(i, snaps[i + 1].id, snaps[i + 1].created_at,
                               snaps[i + 1].created_at, FALSE)]

\* getPeriods with the current period numbered from the last array position
getPeriods_lastPosition(snaps) ==
    LET length == Len(snaps)
    IN  IF length = 0
        THEN << PeriodInfo(0, Null, Null, Null, TRUE) >>
        ELSE << PeriodInfo(length - 1, snaps[length].id, snaps[length].created_at,
                           Null, TRUE) >>
             \o << PeriodInfo(0, Null, Null, snaps[1].created_at, FALSE) >>
             \o [i \in 1..(length - 1) |->
                    PeriodInfo(i, snaps[i].id, snaps[i].created_at,
                               snaps[i + 1].created_at, FALSE)]

getPeriods(snaps) ==
    LET length == Len(snaps)
    IN  IF length = 0
        THEN << PeriodInfo(0, Null, Null, Null, TRUE) >>
        ELSE << PeriodInfo(length, snaps[length].id, snaps[length].created_at,
                           Null, TRUE) >>
             \o << PeriodInfo(0, Null, Null, snaps[1].created_at, FALSE) >>
             \o [i \in 1..(length - 1) |->
                    PeriodInfo(i, snaps[i].id, snaps[i].created_at,
                               snaps[i + 1].created_at, FALSE)]

----------------------------------------------------------------------------
(* The delta engine: mapFromDataArray and computePeriodDelta *)

\* a null / undefined record (rawStart of a new user, a failed find)
NullUser == [isNull |-> TRUE]

\* A JavaScript Map, kept as the sequence of its [key, value] entries in
\* insertion order.  set() of a present key replaces the value in place.
MapHas(m, key) == \E i \in 1..Len(m) : m[i].key = key
MapGet(m, key) == m[CHOOSE i \in 1..Len(m) : m[i].key = key].value
\* a set that keeps the value a key already has
MapSet_keepFirst(m, key, value) ==
    IF MapHas(m, key) THEN m
    ELSE Append(m, [key |-> key, value |-> value])

MapSet(m, key, value) ==
    IF MapHas(m, key)
    THEN [i \in 1..Len(m) |-> IF m[i].key = key
                              THEN [key |-> key, value |-> value] ELSE m[i]]
    ELSE Append(m, [key |-> key, value |-> value])
MapKeys(m) == [i \in 1..Len(m) |-> m[i].key]

RECURSIVE mapFromPrefix(_, _)
mapFromPrefix(data, n) ==
    IF n = 0 THEN << >>
    ELSE MapSet(mapFromPrefix(data, n - 1), data[n].id, data[n])

mapFromDataArray(data) == mapFromPrefix(data, Len(data))

\* new Set([...a, ...b]) as the sequence of its members in insertion order
RECURSIVE SetFromPrefix(_, _)
SetFromPrefix(keys, n) ==
    IF n = 0 THEN << >>
    ELSE LET rest == SetFromPrefix(keys, n - 1)
         IN  IF \E i \in 1..Len(rest) : rest[i] = keys[n]
             THEN rest ELSE Append(rest, keys[n])

SetOf(keys) == SetFromPrefix(keys, Len(keys))

\* x ?? 0
OrZero(x) == IF x.k = "missing" THEN Num(0) ELSE x

\* Number(x) of a JSON value: a finite number stays, anything else is NaN
Number(x) == IF x.k = "num" THEN x ELSE NonFinite

\* end - start in IEEE arithmetic: non-finite as soon as one side is
Minus(a, b) == IF a.k = "num" /\ b.k = "num" THEN Num(a.v - b.v) ELSE NonFinite

\* the clamp without its d < 0 test
Clamp_noNegativeTest(d) == IF d.k # "num" THEN 0 ELSE d.v

\* if (!Number.isFinite(d) || d < 0) d = 0
Clamp(d) == IF d.k # "num" \/ d.v < 0 THEN 0 ELSE d.v

\* +x.toFixed(6): the nearest multiple of a micro-dollar, halves away from 0
toFixed6(x) ==
    LET half == UnitsPerMicro \div 2
        mag  == IF x < 0 THEN -x ELSE x
        r    == ((mag + half) \div UnitsPerMicro) * UnitsPerMicro
    IN  IF x < 0 THEN -r ELSE r

\* the fields of usage.total of a record that may be undefined
CostOf(u)     == IF u = NullUser THEN Missing ELSE u.usage.total.cost
TokensOf(u)   == IF u = NullUser THEN Missing ELSE u.usage.total.tokens
RequestsOf(u) == IF u = NullUser THEN Missing ELSE u.usage.total.requests

\* a quotient a / b, kept exact
Ratio(a, b) == [num |-> a, den |-> b]
Zero == Ratio(0, 1)

\* the loop body pushing the unrounded delta as cost
rankingEntry_unroundedCost(start, end, id, me) ==
    LET endU   == MapGet(end, id)
        startU == IF MapHas(start, id) THEN MapGet(start, id) ELSE NullUser
        d  == Clamp(Minus(Number(OrZero(CostOf(endU))), Number(OrZero(CostOf(startU)))))
        dt == Clamp(Minus(Number(OrZero(TokensOf(endU))), Number(OrZero(TokensOf(startU)))))
        dr == Clamp(Minus(Number(OrZero(RequestsOf(endU))), Number(OrZero(RequestsOf(startU)))))
    IN  [id |-> IF me = id THEN id ELSE "",
         name |-> IF endU.name # "" THEN endU.name ELSE "User",
         cost |-> d,
         share |-> Zero,
         isMe |-> (me = id),
         rawStart |-> startU,
         rawEnd |-> endU,
         periodTokens |-> dt,
         periodRequests |-> dr]

\* the loop body giving a user without a start record a zero delta
rankingEntry_newUserZero(start, end, id, me) ==
    LET endU   == MapGet(end, id)
        startU == IF MapHas(start, id) THEN MapGet(start, id) ELSE NullUser
        d0 == Clamp(Minus(Number(OrZero(CostOf(endU))), Number(OrZero(CostOf(startU)))))
        dt0 == Clamp(Minus(Number(OrZero(TokensOf(endU))), Number(OrZero(TokensOf(startU)))))
        dr0 == Clamp(Minus(Number(OrZero(RequestsOf(endU))), Number(OrZero(RequestsOf(startU)))))
        d  == IF startU = NullUser THEN 0 ELSE d0
        dt == IF startU = NullUser THEN 0 ELSE dt0
        dr == IF startU = NullUser THEN 0 ELSE dr0
    IN  [id |-> IF me = id THEN id ELSE "",
         name |-> IF endU.name # "" THEN endU.name ELSE "User",
         cost |-> toFixed6(d),
         share |-> Zero,
         isMe |-> (me = id),
         rawStart |-> startU,
         rawEnd |-> endU,
         periodTokens |-> dt,
         periodRequests |-> dr]

\* the loop body copying every id into the entry
rankingEntry_noRedaction(start, end, id, me) ==
    LET endU   == MapGet(end, id)
        startU == IF MapHas(start, id) THEN MapGet(start, id) ELSE NullUser
        d  == Clamp(Minus(Number(OrZero(CostOf(endU))), Number(OrZero(CostOf(startU)))))
        dt == Clamp(Minus(Number(OrZero(TokensOf(endU))), Number(OrZero(TokensOf(startU)))))
        dr == Clamp(Minus(Number(OrZero(RequestsOf(endU))), Number(OrZero(RequestsOf(startU)))))
    IN  [id |-> id,
         name |-> IF endU.name # "" THEN endU.name ELSE "User",
         cost |-> toFixed6(d),
         share |-> Zero,
         isMe |-> (me = id),
         rawStart |-> startU,
         rawEnd |-> endU,
         periodTokens |-> dt,
         periodRequests |-> dr]

\* one pass of the loop body for id: the entry pushed to users
rankingEntry(start, end, id, me) ==
    LET endU   == MapGet(end, id)
        startU == IF MapHas(start, id) THEN MapGet(start, id) ELSE NullUser
        d  == Clamp(Minus(Number(OrZero(CostOf(endU))), Number(OrZero(CostOf(startU)))))
        dt == Clamp(Minus(Number(OrZero(TokensOf(endU))), Number(OrZero(TokensOf(startU)))))
        dr == Clamp(Minus(Number(OrZero(RequestsOf(endU))), Number(OrZero(RequestsOf(startU)))))
    IN  [id |-> IF me = id THEN id ELSE "",
         name |-> IF endU.name # "" THEN endU.name ELSE "User",
         cost |-> toFixed6(d),
         share |-> Zero,
         isMe |-> (me = id),
         rawStart |-> startU,
         rawEnd |-> endU,
         periodTokens |-> dt,
         periodRequests |-> dr]

\* the loop listing a deleted user (absent from end) with its start record
\* and no cost, instead of skipping it
RECURSIVE rankingLoop_keepDeleted(_, _, _, _, _)
rankingLoop_keepDeleted(start, end, ids, n, me) ==
    IF n = 0 THEN << >>
    ELSE LET users == rankingLoop_keepDeleted(start, end, ids, n - 1, me)
         IN  IF ~MapHas(end, ids[n])
             THEN Append(users, rankingEntry(start, start, ids[n], me))
             ELSE Append(users, rankingEntry(start, end, ids[n], me))

RECURSIVE rankingLoop(_, _, _, _, _)
rankingLoop(start, end, ids, n, me) ==
    IF n = 0 THEN << >>
    ELSE LET users == rankingLoop(start, end, ids, n - 1, me)
         IN  IF ~MapHas(end, ids[n]) THEN users
             ELSE Append(users, rankingEntry(start, end, ids[n], me))

RECURSIVE SumCost(_, _)
SumCost(users, n) == IF n = 0 THEN 0 ELSE SumCost(users, n - 1) + users[n].cost

\* the share as a percentage
shareOf_percent(cost, totalCost) ==
    IF totalCost > 0 THEN Ratio(cost * 100, totalCost) ELSE Zero

\* u.share = totalCost > 0 ? u.cost / totalCost : 0
shareOf(cost, totalCost) == IF totalCost > 0 THEN Ratio(cost, totalCost) ELSE Zero

\* the sort with the comparator reversed (a.cost - b.cost)
RECURSIVE sortUsers_ascending(_, _)
sortUsers_ascending(users, n) ==
    IF n = 0 THEN << >>
    ELSE LET done == sortUsers_ascending(users, n - 1)
             u    == users[n]
             k    == Cardinality({i \in 1..Len(done) : done[i].cost <= u.cost})
         IN  SubSeq(done, 1, k) \o << u >> \o SubSeq(done, k + 1, Len(done))

\* users.sort((a, b) => b.cost - a.cost): a stable sort, larger cost first
RECURSIVE sortUsers(_, _)
sortUsers(users, n) ==
    IF n = 0 THEN << >>
    ELSE LET done == sortUsers(users, n - 1)
             u    == users[n]
             k    == Cardinality({i \in 1..Len(done) : done[i].cost >= u.cost})
         IN  SubSeq(done, 1, k) \o << u >> \o SubSeq(done, k + 1, Len(done))

\* users.find(u => u.id === meId)
findById(users, id) ==
    IF \E i \in 1..Len(users) : users[i].id = id
    THEN users[CHOOSE i \in 1..Len(users) :
                   users[i].id = id /\ \A j \in 1..(i - 1) : users[j].id # id]
    ELSE NullUser

computePeriodDelta(sData, eData, me) ==
    LET start == mapFromDataArray(sData)
        end   == mapFromDataArray(eData)
        ids   == SetOf(MapKeys(start) \o MapKeys(end))
        users == rankingLoop(start, end, ids, Len(ids), me)
        totalCost == SumCost(users, Len(users))
        shared == [i \in 1..Len(users) |->
                      [users[i] EXCEPT !.share = shareOf(users[i].cost, totalCost)]]
        ranked == sortUsers(shared, Len(shared))
    IN  [users |-> ranked,
         totalCost |-> toFixed6(totalCost),
         me |-> IF me # NoId /\ me # "" THEN findById(ranked, me) ELSE NullUser]

----------------------------------------------------------------------------
(* The billing calculator: getPeriodSummary and getUserDetail *)

\* JSON.parse: takes one encoding layer off
JSONparse(text) ==
    IF text.layers > 1 THEN [text EXCEPT !.layers = @ - 1] ELSE text.data

\* rawData.startsWith('"'): the text encodes a string, that is, more text
startsWithQuote(text) == text.layers > 1

\* a decoding that parses once: a payload encoded twice is then text, and the
\* calculator finds no record in text
decodePayload_parseOnce(raw_json) ==
    IF startsWithQuote(raw_json) THEN << >> ELSE JSONparse(raw_json)

\* the decoding of a snapshot payload, as written out at each of the three
\* places of getPeriodSummary that read one
decodePayload(raw_json) ==
    LET rawData == IF startsWithQuote(raw_json) THEN JSONparse(raw_json)
                   ELSE raw_json
    IN  JSONparse(rawData)

\* a query selecting every row up to that id, the oldest first
getSnapshotById_upTo(t, id) == SelectSeq(t, LAMBDA r : r.id <= id)

\* SELECT ... WHERE id = ?: the rows with that id, none or one
getSnapshotById(t, id) == SelectSeq(t, LAMBDA r : r.id = id)

\* snapshots.find / findIndex(s => s.created_at === at): the position of the
\* first row created at that instant, 0 when there is none
findByCreatedAt(rows, at) ==
    IF \E k \in 1..Len(rows) : rows[k].created_at = at
    THEN CHOOSE k \in 1..Len(rows) :
            /\ rows[k].created_at = at
            /\ \A j \in 1..(k - 1) : rows[j].created_at # at
    ELSE 0

\* a lookup that knows only the current period and the one closed last
findPeriod_latest(ps, periodIndex) ==
    IF \E k \in 1..Len(ps) :
          ps[k].index = periodIndex /\ periodIndex >= Len(ps) - 2
    THEN CHOOSE k \in 1..Len(ps) : ps[k].index = periodIndex
    ELSE 0

\* a lookup that passes over the current period
findPeriod_historical(ps, periodIndex) ==
    IF \E k \in 1..Len(ps) : ps[k].index = periodIndex /\ ~ps[k].isCurrent
    THEN CHOOSE k \in 1..Len(ps) :
            ps[k].index = periodIndex /\ ~ps[k].isCurrent
    ELSE 0

\* periods.find(p => p.index === periodIndex): its position, 0 when none
findPeriod(ps, periodIndex) ==
    IF \E k \in 1..Len(ps) : ps[k].index = periodIndex
    THEN CHOOSE k \in 1..Len(ps) :
            /\ ps[k].index = periodIndex
            /\ \A j \in 1..(k - 1) : ps[j].index # periodIndex
    ELSE 0

\* a count of every ranked user
userCount_all(users) == Len(users)

\* totals.userCount of getPeriodSummary: users.filter(u => u.cost > 0).length
userCount(users) == Cardinality({k \in 1..Len(users) : users[k].cost > 0})

NoDelta == [users |-> << >>, totalCost |-> 0, me |-> NullUser]
NoPeriod == PeriodInfo(Null, Null, Null, Null, FALSE)

\* an end that is left as getPeriods gives it
materialize_asIs(endAt, clock) == endAt

\* an end that is always the time of the call
materialize_now(endAt, clock) == toISOString(clock)

\* period.endAt || new Date().toISOString()
materialize(endAt, clock) == IF endAt # Null THEN endAt ELSE toISOString(clock)

\* a resolution that ends every period 0 with the live data, closed or not
resolveData_liveFirst(period, rows, t, liveData) ==
    LET startSnapshot == getSnapshotById(t, period.startSnapshotId)
        fromStart == IF Len(startSnapshot) > 0
                     THEN decodePayload(startSnapshot[1].raw_json) ELSE << >>
        startRead == IF Len(startSnapshot) > 0 THEN {startSnapshot[1].id} ELSE {}
        endIndex  == findByCreatedAt(rows, period.endAt)
        fromEnd   == IF endIndex # 0
                     THEN decodePayload(rows[endIndex].raw_json) ELSE << >>
        endRead   == IF endIndex # 0 THEN {rows[endIndex].id} ELSE {}
    IN  IF period.index = 0
        THEN [startData |-> << >>, endData |-> liveData,
              fetches |-> 1, reads |-> {}]
        ELSE IF period.isCurrent
        THEN [startData |-> fromStart, endData |-> liveData,
              fetches |-> 1, reads |-> startRead]
        ELSE [startData |-> fromStart, endData |-> fromEnd,
              fetches |-> 0, reads |-> startRead \cup endRead]

\* The start and end datasets getPeriodSummary resolves for a period, with
\* the number of live fetches it makes and the ids of the snapshots whose
\* payload it decodes.  rows is what db.getSnapshots() returns, t the table
\* getSnapshotById reads, liveData what getCurrentCosts() returns.
resolveData(period, rows, t, liveData) ==
    LET startSnapshot == getSnapshotById(t, period.startSnapshotId)
        fromStart == IF Len(startSnapshot) > 0
                     THEN decodePayload(startSnapshot[1].raw_json) ELSE << >>
        startRead == IF Len(startSnapshot) > 0 THEN {startSnapshot[1].id} ELSE {}
        endIndex  == findByCreatedAt(rows, period.endAt)
        fromEnd   == IF endIndex # 0
                     THEN decodePayload(rows[endIndex].raw_json) ELSE << >>
        endRead   == IF endIndex # 0 THEN {rows[endIndex].id} ELSE {}
    IN  IF period.index = 0
        THEN IF period.endAt # Null
             THEN [startData |-> << >>, endData |-> fromEnd,
                   fetches |-> 0, reads |-> endRead]
             ELSE [startData |-> << >>, endData |-> liveData,
                   fetches |-> 1, reads |-> {}]
        ELSE IF period.isCurrent
        THEN [startData |-> fromStart, endData |-> liveData,
              fetches |-> 1, reads |-> startRead]
        ELSE [startData |-> fromStart, endData |-> fromEnd,
              fetches |-> 0, reads |-> startRead \cup endRead]

getPeriodSummary(rows, t, liveData, clock, periodIndex, me) ==
    LET ps == getPeriods(rows)
        at == findPeriod(ps, periodIndex)
    IN  IF at = 0
        THEN [status |-> "notfound", period |-> NoPeriod,
              totals |-> [totalCost |-> 0, userCount |-> 0],
              ranking |-> << >>,
              startData |-> << >>, endData |-> << >>, result |-> NoDelta,
              fetches |-> 0, reads |-> {}]
        ELSE LET period == ps[at]
                 data   == resolveData(period, rows, t, liveData)
                 result == computePeriodDelta(data.startData, data.endData, me)
             IN  [status |-> "ok",
                  period |-> [period EXCEPT !.endAt = materialize(@, clock)],
                  totals |-> [totalCost |-> result.totalCost,
                              userCount |-> userCount(result.users)],
                  ranking |-> result.users,
                  startData |-> data.startData, endData |-> data.endData,
                  result |-> result,
                  fetches |-> data.fetches, reads |-> data.reads]

NoSummary == [status |-> "none", period |-> NoPeriod,
              totals |-> [totalCost |-> 0, userCount |-> 0], ranking |-> << >>]

NoDetail == [status |-> "none", id |-> "", name |-> "",
             startCost |-> Num(0), endCost |-> Num(0), deltaCost |-> 0,
             raw |-> [start |-> NullUser, end |-> NullUser]]

\* getUserDetail, given what its getPeriodSummary call returned or threw
getUserDetail(s, me) ==
    IF s.status = "notfound"
    THEN [NoDetail EXCEPT !.status = "notfound"]
    ELSE LET found == findById(s.ranking, me)
         IN  IF found = NullUser
             THEN [NoDetail EXCEPT !.status = "nouser"]
             ELSE [status |-> "ok",
                   id |-> found.id,
                   name |-> found.name,
                   startCost |-> Number(OrZero(CostOf(found.rawStart))),
                   endCost |-> Number(OrZero(CostOf(found.rawEnd))),
                   deltaCost |-> found.cost,
                   raw |-> [start |-> found.rawStart, end |-> found.rawEnd]]

----------------------------------------------------------------------------
(* The system: the store, the upstream data, the period-close script and   *)
(* the calculator's queries                                                *)

\* new ApiClient(): token = null, expiresAt = 0, and no call is running
NoToken == "null"
NoLogin ==
    [state |-> "idle", retries |-> 0, sent |-> 0, at |-> 0,
     entered |-> [token |-> NoToken, expiresAt |-> Num(0)]]

\* no getCurrentCosts call is running
NoFetch ==
    [state |-> "idle", page |-> 1, totalPages |-> 1, allItems |-> << >>,
     changes |-> 0]

\* no request was served
NoHeader == [k |-> "absent", of |-> ""]
NoAnswer == [ok |-> FALSE, success |-> FALSE, id |-> ""]
NoRequest ==
    [route |-> "none", header |-> NoHeader, index |-> Missing,
     legacy |-> NoAnswer, listFails |-> FALSE, status |-> 0, ops |-> << >>]

\* nothing billed yet, a freshly constructed ApiClient
NoAux ==
    /\ billed = << >>
    /\ client = [token |-> NoToken, expiresAt |-> Num(0)]
    /\ loginCall = NoLogin
    /\ dateNow = 0
    /\ upstream = << >>
    /\ fetch = NoFetch
    /\ http = NoRequest

NoCall ==
    [op |-> "none", periodIndex |-> 0, asked |-> 0, outdated |-> FALSE,
     fetches |-> 0, reads |-> {}]

\* the period indexes and caller ids the queries are tried with
PeriodIndexes == -1..(MaxSnapshots + 1)
MeIds == Users \cup {""}

Init ==
    /\ table = << >>
    /\ listing = << >>
    /\ now = 0
    /\ live \in LiveDatasets
    /\ snapshots = << >>
    /\ periods = << >>
    /\ selectedPeriod = NoPeriod
    /\ startData = << >>
    /\ endData = << >>
    /\ meId = NoId
    /\ delta = NoDelta
    /\ twin = NoDelta
    /\ call = NoCall
    /\ summary = NoSummary
    /\ detail = NoDetail
    /\ NoAux
    /\ pc = "idle"

\* What the caller holds: the response of its last query (periods, or
\* summary and detail with the call, the datasets and the delta behind them).
\* A response is kept while the upstream data changes; the periods are kept
\* while snapshots are appended and a summary while the clock moves on; any
\* other change of the store or the clock drops it.
dropPeriods ==
    snapshots' = << >> /\ periods' = << >> /\ selectedPeriod' = NoPeriod
dropSummary ==
    /\ startData' = << >> /\ endData' = << >> /\ meId' = NoId
    /\ delta' = NoDelta /\ twin' = twin
    /\ call' = NoCall /\ summary' = NoSummary /\ detail' = NoDetail

\* time passes
Tick ==
    /\ UNCHANGED auxVars
    /\ now < MaxTime
    /\ now' = now + 1
    /\ IF pc = "summary"
       THEN UNCHANGED <<snapshots, periods, selectedPeriod, deltaVars, calcVars,
                       pc>>
       ELSE dropPeriods /\ dropSummary /\ pc' = "idle"
    /\ UNCHANGED <<table, listing, live>>

\* the upstream usage data changes
UsageChange ==
    /\ UNCHANGED auxVars
    /\ live' \in LiveDatasets \ {live}
    /\ UNCHANGED <<table, listing, now, snapshots, periods, selectedPeriod,
                   deltaVars, calcVars, pc>>

\* begin-period.ts: currentCosts = await apiClient.getCurrentCosts(), then
\* db.insertSnapshot(JSON.stringify(currentCosts)).  The upstream data may
\* change right before and right after (UsageChange), so taking the fetch and
\* the insert in one step loses no reachable store.  The order in which the
\* getSnapshots query yields the rows from now on is one of those it allows.
beginNewPeriod ==
    /\ UNCHANGED auxVars
    /\ Len(table) < MaxSnapshots
    /\ LET currentCosts == live
       IN  table' = insertSnapshot(table, JSONstringify(currentCosts), now)
    /\ listing' \in getSnapshots(table')
    /\ IF pc = "periods"
       THEN UNCHANGED <<snapshots, periods, selectedPeriod, deltaVars, calcVars,
                       pc>>
       ELSE dropPeriods /\ dropSummary /\ pc' = "idle"
    /\ UNCHANGED <<now, live>>

\* BillingCalculator.getPeriods()
GetPeriods ==
    /\ UNCHANGED auxVars
    /\ snapshots' = listing
    /\ periods' = getPeriods(listing)
    /\ selectedPeriod' = NoPeriod
    /\ dropSummary
    /\ pc' = "periods"
    /\ UNCHANGED storeVars

Next == Tick \/ UsageChange \/ beginNewPeriod \/ GetPeriods

Spec == Init /\ [][Next]_vars

----------------------------------------------------------------------------
(* The calculator's three queries against the evolving store *)

\* the caller takes the index from a list of periods it holds, and snapshots
\* were appended since it got that list
Outdated(periodIndex) ==
    /\ pc = "periods"
    /\ Len(snapshots) < Len(listing)
    /\ \E k \in 1..Len(periods) : periods[k].index = periodIndex

\* A caller that holds a summary asks for the same summary again; any other
\* query starts from a caller holding no summary or detail.
Asks(periodIndex, me) ==
    \/ pc \in {"idle", "periods"}
    \/ pc = "summary" /\ call.periodIndex = periodIndex /\ meId = me

\* BillingCalculator.getPeriodSummary(periodIndex, meId)
GetPeriodSummary ==
    \E periodIndex \in PeriodIndexes, me \in MeIds :
        /\ Asks(periodIndex, me)
        /\ \E r \in {getPeriodSummary(listing, table, live, now, periodIndex, me)} :
            /\ summary' = [status |-> r.status, period |-> r.period,
                           totals |-> r.totals, ranking |-> r.ranking]
            /\ call' = [op |-> "summary", periodIndex |-> periodIndex,
                        asked |-> IF pc = "summary" THEN 2 ELSE 1,
                        outdated |-> IF pc = "summary" THEN call.outdated
                                     ELSE Outdated(periodIndex),
                        fetches |-> r.fetches, reads |-> r.reads]
            /\ snapshots' = listing
            /\ periods' = << >> /\ selectedPeriod' = NoPeriod
            /\ startData' = r.startData
            /\ endData' = r.endData
            /\ meId' = me
            /\ delta' = r.result
            /\ detail' = NoDetail
            /\ pc' = "summary"
            /\ UNCHANGED <<storeVars, twin, auxVars>>

\* BillingCalculator.getUserDetail(periodIndex, meId)
GetUserDetail ==
    \E periodIndex \in PeriodIndexes, me \in MeIds :
        /\ pc \in {"idle", "periods"}
        /\ \E r \in {getPeriodSummary(listing, table, live, now, periodIndex, me)} :
            /\ summary' = [status |-> r.status, period |-> r.period,
                           totals |-> r.totals, ranking |-> r.ranking]
            /\ detail' = getUserDetail(summary', me)
            /\ call' = [op |-> "detail", periodIndex |-> periodIndex,
                        asked |-> 1, outdated |-> FALSE,
                        fetches |-> r.fetches, reads |-> r.reads]
            /\ snapshots' = listing
            /\ periods' = << >> /\ selectedPeriod' = NoPeriod
            /\ startData' = r.startData
            /\ endData' = r.endData
            /\ meId' = me
            /\ delta' = r.result
            /\ pc' = "detail"
            /\ UNCHANGED <<storeVars, twin, auxVars>>

NextCalc ==
    \/ Tick \/ UsageChange \/ beginNewPeriod
    \/ GetPeriods \/ GetPeriodSummary \/ GetUserDetail

SpecCalc == Init /\ [][NextCalc]_vars

----------------------------------------------------------------------------
(* The delta engine on its own: computePeriodDelta applied to bounded      *)
(* start and end datasets                                                  *)

\* the ids the other users' ids are replaced by
Pseudonym == ("u1" :> "p1") @@ ("u2" :> "p2")

\* a dataset with the id of every user other than me replaced
Renamed(data, me) ==
    [i \in 1..Len(data) |->
        IF data[i].id = me THEN data[i]
        ELSE [data[i] EXCEPT !.id = Pseudonym[@]]]

InitDelta ==
    /\ table = << >>
    /\ listing = << >>
    /\ now = 0
    /\ live = << >>
    /\ snapshots = << >>
    /\ periods = << >>
    /\ selectedPeriod = NoPeriod
    /\ startData \in SeqUpTo(Records, MaxStart)
    /\ endData \in SeqUpTo(Records, MaxEnd)
    /\ meId \in Users \cup {NoId}
    /\ delta = NoDelta
    /\ twin = NoDelta
    /\ call = NoCall
    /\ summary = NoSummary
    /\ detail = NoDetail
    /\ NoAux
    /\ pc = "input"

ComputeDelta ==
    /\ UNCHANGED auxVars
    /\ pc = "input"
    /\ delta' = computePeriodDelta(startData, endData, meId)
    /\ twin' = computePeriodDelta(Renamed(startData, meId),
                                  Renamed(endData, meId), meId)
    /\ pc' = "delta"
    /\ UNCHANGED <<storeVars, snapshots, periods, selectedPeriod, startData,
                   endData, meId, calcVars>>

NextDelta == ComputeDelta

SpecDelta == InitDelta /\ [][NextDelta]_vars

----------------------------------------------------------------------------
(* Properties of the period deriver *)

Range(f) == {f[i] : i \in DOMAIN f}

\* the positions of the periods numbered i
WithIndex(ps, i) == {k \in 1..Len(ps) : ps[k].index = i}

\* C1: whatever snapshots have been appended (N of them), getPeriods returns
\* exactly N + 1 periods, exactly one of them is current, and the current
\* period is the only one without an end.
PeriodCount(ps, N) ==
    /\ Len(ps) = N + 1
    /\ Cardinality({k \in 1..Len(ps) : ps[k].isCurrent}) = 1
    /\ \A k \in 1..Len(ps) : ps[k].isCurrent <=> ps[k].endAt = Null

C1_OneCurrentPeriod == [][GetPeriods => PeriodCount(periods', Len(table))]_vars

C1_Witness ==
    /\ pc = "periods"
    /\ Len(table) = 2
    /\ Len(periods) = 3
    /\ periods[1].isCurrent /\ ~periods[2].isCurrent /\ ~periods[3].isCurrent

\* C2: the periods are gapless: for every i < N the period numbered i ends
\* where the period numbered i + 1 starts, and the start snapshot of period
\* i + 1 is a stored snapshot created at that very boundary.
C2_GaplessPartition ==
    pc = "periods" =>
        \A i \in 0..(Len(snapshots) - 1) :
            /\ WithIndex(periods, i) # {}
            /\ WithIndex(periods, i + 1) # {}
            /\ \A a \in WithIndex(periods, i), b \in WithIndex(periods, i + 1) :
                  /\ periods[a].endAt # Null
                  /\ periods[a].endAt = periods[b].startAt
                  /\ \E r \in 1..Len(table) :
                        /\ table[r].id = periods[b].startSnapshotId
                        /\ table[r].created_at = periods[a].endAt

C2_Witness ==
    /\ pc = "periods"
    /\ Len(snapshots) = 2
    /\ snapshots[1].created_at < snapshots[2].created_at
    /\ \E a \in WithIndex(periods, 1), b \in WithIndex(periods, 2) :
          periods[a].endAt = periods[b].startAt

\* C3: getPeriods returns the periods the specification defines, numbered
\* 0..N, each number once.  snaps0(i) is snapshots[i] counted from 0.
SpecifiedPeriods(snaps) ==
    LET N == Len(snaps)
        snaps0(i) == snaps[i + 1]
    IN  IF N = 0
        THEN {[index |-> 0, startSnapshotId |-> Null, startAt |-> Null,
               endAt |-> Null, isCurrent |-> TRUE]}
        ELSE {[index |-> N, startSnapshotId |-> snaps0(N - 1).id,
               startAt |-> snaps0(N - 1).created_at,
               endAt |-> Null, isCurrent |-> TRUE]}
             \cup
             {[index |-> 0, startSnapshotId |-> Null, startAt |-> Null,
               endAt |-> snaps0(0).created_at, isCurrent |-> FALSE]}
             \cup
             {[index |-> i, startSnapshotId |-> snaps0(i - 1).id,
               startAt |-> snaps0(i - 1).created_at,
               endAt |-> snaps0(i).created_at, isCurrent |-> FALSE] :
                 i \in 1..(N - 1)}

C3_PeriodsAsSpecified ==
    pc = "periods" =>
        /\ Range(periods) = SpecifiedPeriods(snapshots)
        /\ \A i \in 0..Len(snapshots) : Cardinality(WithIndex(periods, i)) = 1
        /\ \A k \in 1..Len(periods) : periods[k].index \in 0..Len(snapshots)

C3_Witness ==
    /\ pc = "periods"
    /\ Len(snapshots) = 2
    /\ \E k \in 1..Len(periods) :
          /\ periods[k].index = 1
          /\ periods[k].startSnapshotId = snapshots[1].id
          /\ periods[k].endAt = snapshots[2].created_at

----------------------------------------------------------------------------
(* Properties of the delta engine, stated on the result of ComputeDelta *)

Computed == pc = "delta"

Ranking == delta.users

\* the ids of the records of a dataset
IdsOf(data) == {data[i].id : i \in 1..Len(data)}

\* a raw field read as the code reads it: absent counts as 0
IsFinite(x) == OrZero(x).k = "num"
ValueOf(x) == OrZero(x).v

\* end - start is a finite negative number
NegativeDifference(e, s) ==
    IsFinite(e) /\ IsFinite(s) /\ ValueOf(e) - ValueOf(s) < 0

\* C4: every ranking entry has cost >= 0, periodTokens >= 0 and
\* periodRequests >= 0, and a negative difference (a counter reset) is
\* reported as 0.
C4_NonNegativeDeltas ==
    Computed =>
        \A k \in 1..Len(Ranking) :
            LET u == Ranking[k]
            IN  /\ u.cost >= 0
                /\ u.periodTokens >= 0
                /\ u.periodRequests >= 0
                /\ NegativeDifference(CostOf(u.rawEnd), CostOf(u.rawStart))
                      => u.cost = 0
                /\ NegativeDifference(TokensOf(u.rawEnd), TokensOf(u.rawStart))
                      => u.periodTokens = 0
                /\ NegativeDifference(RequestsOf(u.rawEnd), RequestsOf(u.rawStart))
                      => u.periodRequests = 0

C4_Witness ==
    /\ Computed
    /\ \E k \in 1..Len(Ranking) :
          /\ Ranking[k].rawStart # NullUser
          /\ NegativeDifference(CostOf(Ranking[k].rawEnd), CostOf(Ranking[k].rawStart))
          /\ Ranking[k].cost = 0

\* the sum of the cost fields of the entries at the positions in K
RECURSIVE CostTotal(_, _)
CostTotal(users, K) ==
    IF K = {} THEN 0
    ELSE LET k == CHOOSE x \in K : TRUE
         IN  users[k].cost + CostTotal(users, K \ {k})

\* C5: the returned totalCost is the sum of the cost fields of the ranking.
C5_TotalIsSumOfCosts ==
    Computed => delta.totalCost = CostTotal(Ranking, 1..Len(Ranking))

C5_Witness ==
    /\ Computed
    /\ Len(Ranking) = 2
    /\ Ranking[1].cost > 0 /\ Ranking[2].cost > 0
    /\ Ranking[2].rawStart # NullUser
    /\ delta.totalCost = Ranking[1].cost + Ranking[2].cost

\* the sum of the shares of the entries at the positions in K, as a quotient
RECURSIVE ShareTotal(_, _)
ShareTotal(users, K) ==
    IF K = {} THEN Ratio(0, 1)
    ELSE LET k    == CHOOSE x \in K : TRUE
             rest == ShareTotal(users, K \ {k})
             sh   == users[k].share
         IN  Ratio(sh.num * rest.den + rest.num * sh.den, sh.den * rest.den)

\* C6: with totalCost > 0 every share is cost / totalCost, lies in [0, 1],
\* and the shares add up to 1; with totalCost = 0 every share is 0.
C6_Shares ==
    Computed =>
        IF delta.totalCost > 0
        THEN /\ \A k \in 1..Len(Ranking) :
                   LET sh == Ranking[k].share
                   IN  /\ sh.den > 0
                       /\ sh.num * delta.totalCost = Ranking[k].cost * sh.den
                       /\ 0 <= sh.num /\ sh.num <= sh.den
             /\ LET sum == ShareTotal(Ranking, 1..Len(Ranking))
                IN  sum.num = sum.den
        ELSE \A k \in 1..Len(Ranking) : Ranking[k].share.num = 0

C6_Witness ==
    /\ Computed
    /\ delta.totalCost > 0
    /\ Len(Ranking) = 2
    /\ Ranking[1].share.num > Ranking[2].share.num
    /\ Ranking[2].share.num > 0

C6_WitnessZero ==
    /\ Computed
    /\ delta.totalCost = 0
    /\ Len(Ranking) >= 1

\* the start dataset without the records of users absent from the end dataset
StartOfSurvivors ==
    SelectSeq(startData, LAMBDA r : r.id \in IdsOf(endData))

\* C7: a user id found only in the start dataset is in no ranking entry, and
\* the ranking, totalCost and userCount are what they are without that
\* user's start records.
C7_DeletedUsersOmitted ==
    Computed =>
        /\ \A k \in 1..Len(Ranking) : Ranking[k].rawEnd.id \in IdsOf(endData)
        /\ Len(Ranking) = Cardinality(IdsOf(endData))
        /\ LET without == computePeriodDelta(StartOfSurvivors, endData, meId)
           IN  /\ delta.totalCost = without.totalCost
               /\ userCount(Ranking) = userCount(without.users)
               /\ Ranking = without.users

C7_Witness ==
    /\ Computed
    /\ \E i \in 1..Len(startData) : startData[i].id \notin IdsOf(endData)
    /\ Len(Ranking) >= 1
    /\ delta.totalCost > 0

\* the ranking entries of users that have no start record
NewUsers == {k \in 1..Len(Ranking) : Ranking[k].rawEnd.id \notin IdsOf(startData)}

\* a usage.total as the data model has it: cost, tokens and requests are
\* finite numbers >= 0
SoundTotal(u) ==
    \A x \in {CostOf(u), TokensOf(u), RequestsOf(u)} : x.k = "num" /\ x.v >= 0

\* C8 as claimed, on sound records: a user found only in the end dataset is
\* ranked with cost equal to its end cost, periodTokens equal to its end
\* tokens and periodRequests equal to its end requests.
C8_NewUserGetsEndValues ==
    Computed =>
        \A k \in NewUsers :
            LET u == Ranking[k]
            IN  SoundTotal(u.rawEnd) =>
                    /\ u.cost = CostOf(u.rawEnd).v
                    /\ u.periodTokens = TokensOf(u.rawEnd).v
                    /\ u.periodRequests = RequestsOf(u.rawEnd).v

\* an end value with the start value defaulted to 0: itself when it is a
\* finite number >= 0, and 0 when it is negative, non-finite or absent
EndValue(x) == IF IsFinite(x) /\ ValueOf(x) >= 0 THEN ValueOf(x) ELSE 0

\* c is the multiple of a micro-dollar nearest to x
RoundedTo6(c, x) ==
    /\ c % UnitsPerMicro = 0
    /\ 2 * (c - x) <= UnitsPerMicro
    /\ 2 * (x - c) < UnitsPerMicro

\* C8 amended: a user found only in the end dataset is ranked with its end
\* cost rounded to 6 decimals, its end tokens and its end requests, where an
\* end value that is negative, non-finite or absent counts as 0.
C8_NewUserGetsRoundedEndValues ==
    Computed =>
        \A k \in NewUsers :
            LET u == Ranking[k]
            IN  /\ u.rawStart = NullUser
                /\ RoundedTo6(u.cost, EndValue(CostOf(u.rawEnd)))
                /\ u.periodTokens = EndValue(TokensOf(u.rawEnd))
                /\ u.periodRequests = EndValue(RequestsOf(u.rawEnd))

C8_Witness ==
    /\ Computed
    /\ Len(startData) = 1
    /\ \E k \in NewUsers :
          /\ Ranking[k].cost > 0
          /\ Num(Ranking[k].cost) # CostOf(Ranking[k].rawEnd)
          /\ Ranking[k].periodTokens > 0

\* C9: the ranking is sorted by descending cost.
C9_SortedByCost ==
    Computed =>
        \A k \in 1..(Len(Ranking) - 1) : Ranking[k].cost >= Ranking[k + 1].cost

C9_Witness ==
    /\ Computed
    /\ Len(endData) = 2
    /\ Len(Ranking) = 2
    /\ Ranking[1].rawEnd = endData[2]
    /\ Ranking[1].cost > Ranking[2].cost

\* C10: an entry carries the user's id when that id is selfId and the empty
\* string otherwise; isMe marks exactly the entry of the user whose id is
\* selfId, so at most one entry, and none when selfId is omitted.
C10_IdRedaction ==
    Computed =>
        /\ \A k \in 1..Len(Ranking) :
              LET u == Ranking[k]
              IN  /\ u.id = (IF u.rawEnd.id = meId THEN u.rawEnd.id ELSE "")
                  /\ u.isMe <=> (u.rawEnd.id = meId)
        /\ Cardinality({k \in 1..Len(Ranking) : Ranking[k].isMe}) <= 1
        /\ meId = NoId => \A k \in 1..Len(Ranking) : ~Ranking[k].isMe

C10_Witness ==
    /\ Computed
    /\ Len(Ranking) = 2
    /\ \E k \in 1..2 :
          /\ Ranking[k].isMe /\ Ranking[k].id = meId
          /\ ~Ranking[3 - k].isMe /\ Ranking[3 - k].id = ""

\* C11: two rankings computed for the same selfId from datasets that differ
\* only in the ids of the users other than selfId are identical in every
\* field of every entry (id, name, cost, share, isMe, rawStart, rawEnd,
\* periodTokens, periodRequests), so that the ranking tells the caller nothing
\* about the other users' ids.  twin is the ranking of the renamed datasets.
C11_OtherIdsNotExposed ==
    Computed => delta.users = twin.users

----------------------------------------------------------------------------
(* The queries of the billing calculator *)

\* a step in which getPeriodSummary returns or throws: the caller comes to
\* hold a summary, or asks again for the one it holds (the steps that leave
\* a held summary as it is change the upstream data or the clock)
SummaryStep == pc' = "summary" /\ (pc = "summary" => UNCHANGED <<live, now>>)

\* a step in which getUserDetail returns or throws
DetailStep == pc' = "detail" /\ pc # "detail"

\* C12: getPeriodSummary(periodIndex) fails with not-found exactly when
\* periodIndex is not one of 0..N, N the number of snapshots; it then decodes
\* no snapshot payload, fetches no live data and leaves the store unchanged.
C12_NotFoundOutsideRange ==
    [][SummaryStep =>
          /\ summary'.status = "notfound"
                <=> call'.periodIndex \notin 0..Len(table)
          /\ summary'.status = "notfound" =>
                /\ call'.fetches = 0
                /\ call'.reads = {}
                /\ UNCHANGED storeVars]_vars

C12_Witness ==
    /\ pc = "summary"
    /\ Len(table) = 2
    /\ call.periodIndex = Len(table) + 1
    /\ summary.status = "notfound"

\* C13: for a period that exists, getUserDetail(periodIndex, selfId) fails
\* with not-found whenever selfId is the id of no record of the period's end
\* dataset, whatever selfId is; otherwise it returns the detail of the user
\* whose id is selfId: deltaCost is that user's ranking cost, startCost and
\* endCost are that user's own raw cumulative costs.
C13_DetailOfSelfOrNotFound ==
    (pc = "detail" /\ summary.status = "ok") =>
        IF meId \notin IdsOf(endData)
        THEN detail.status = "nouser"
        ELSE /\ detail.status = "ok"
             /\ \E k \in 1..Len(summary.ranking) :
                   LET u == summary.ranking[k]
                   IN  /\ u.rawEnd.id = meId
                       /\ u.rawStart # NullUser => u.rawStart.id = meId
                       /\ detail.deltaCost = u.cost
                       /\ detail.startCost = Number(OrZero(CostOf(u.rawStart)))
                       /\ detail.endCost = Number(OrZero(CostOf(u.rawEnd)))

\* a step in which either query returns a result for a period that exists
ResultStep == (SummaryStep \/ DetailStep) /\ summary'.status = "ok"

\* the dataset that was stored as the payload of a snapshot
PayloadOf(row) == row.raw_json.data

\* C14: for a non-current period i (0 <= i < N), whatever the creation
\* timestamps of the snapshots are, the end dataset is the payload of the
\* snapshot closing the period, snapshots[i] (position i + 1 here); for the
\* current period it is the live dataset.
C14_EndDataset ==
    [][ResultStep =>
          LET i == call'.periodIndex
          IN  IF i < Len(listing)
              THEN endData' = PayloadOf(listing[i + 1])
              ELSE endData' = live]_vars

\* C15: the start dataset is empty for period 0, with or without snapshots,
\* and for a period i >= 1, historical or current, it is the payload of the
\* snapshot whose id is the period's startSnapshotId, snapshots[i-1]
\* (position i here).
C15_StartDataset ==
    [][ResultStep =>
          LET i == call'.periodIndex
          IN  IF i = 0
              THEN startData' = << >>
              ELSE /\ listing[i].id = summary'.period.startSnapshotId
                   /\ startData' = PayloadOf(listing[i])]_vars

C15_Witness ==
    /\ pc = "summary"
    /\ summary.status = "ok"
    /\ call.periodIndex = 2
    /\ Len(snapshots) = 2
    /\ startData = PayloadOf(snapshots[2])
    /\ startData # PayloadOf(snapshots[1])

C15_WitnessZero ==
    /\ pc = "summary"
    /\ summary.status = "ok"
    /\ call.periodIndex = 0
    /\ Len(snapshots) = 1
    /\ startData = << >>
    /\ endData # << >>

\* C16: getPeriods, getPeriodSummary and getUserDetail leave the snapshot
\* store as it is, and getPeriodSummary and getUserDetail fetch the live data
\* exactly when the requested period is the current one (index N), once.
C16_ReadOnlyQueries ==
    [][/\ (GetPeriods \/ SummaryStep \/ DetailStep) =>
              UNCHANGED <<table, listing>>
       /\ (SummaryStep \/ DetailStep) =>
              /\ call'.fetches = (IF call'.periodIndex = Len(table) THEN 1 ELSE 0)
              /\ call'.fetches = 1 <=>
                    summary'.status = "ok" /\ summary'.period.isCurrent]_vars

C16_Witness ==
    /\ pc = "detail"
    /\ Len(table) = 2
    /\ call.periodIndex = 2
    /\ call.fetches = 1
    /\ table[1].raw_json # table[2].raw_json

\* C17: getPeriodSummary called again for the same non-current period and
\* the same selfId, with no snapshot appended since the first call, returns
\* the same period, totals and ranking, whatever became of the live usage
\* data (and of the clock) in between.
C17_RepeatableSummary ==
    [][(/\ pc = "summary" /\ SummaryStep
        /\ summary.status = "ok" /\ ~summary.period.isCurrent
        /\ call'.periodIndex = call.periodIndex /\ meId' = meId
        /\ Len(listing) = Len(snapshots))
          => summary' = summary]_vars

C17_Witness ==
    /\ pc = "summary"
    /\ call.asked = 2
    /\ summary.status = "ok" /\ ~summary.period.isCurrent
    /\ call.periodIndex = 1
    /\ endData # live
    /\ summary.period.endAt # toISOString(now)

\* the caller holds the result of a query for a period that exists
Summarized == pc \in {"summary", "detail"} /\ summary.status = "ok"

\* C18: totals.userCount is the number of ranking entries with cost > 0; an
\* entry with cost exactly 0 is in the ranking and is not counted.
C18_UserCount ==
    Summarized =>
        summary.totals.userCount =
            Cardinality({k \in 1..Len(summary.ranking) :
                            summary.ranking[k].cost > 0})

C18_Witness ==
    /\ Summarized
    /\ Len(summary.ranking) = 1
    /\ summary.ranking[1].cost = 0
    /\ summary.totals.userCount = 0

\* the period with that index in what getPeriods returns for these rows
PeriodOf(rows, i) == CHOOSE p \in Range(getPeriods(rows)) : p.index = i

\* C19: the period inside a getPeriodSummary result has a concrete endAt: the
\* time of the call for the current period, the endAt getPeriods gives for a
\* non-current one; index, startSnapshotId, startAt and isCurrent are those
\* getPeriods gives.
C19_ConcreteEnd ==
    [][ResultStep =>
          LET p == PeriodOf(listing, call'.periodIndex)
              q == summary'.period
          IN  /\ q.endAt # Null
              /\ q.endAt = (IF p.isCurrent THEN toISOString(now) ELSE p.endAt)
              /\ p.isCurrent <=> p.endAt = Null
              /\ q.index = p.index
              /\ q.startSnapshotId = p.startSnapshotId
              /\ q.startAt = p.startAt
              /\ q.isCurrent = p.isCurrent]_vars

C19_Witness ==
    /\ pc = "summary"
    /\ call.asked = 1
    /\ summary.status = "ok"
    /\ summary.period.isCurrent
    /\ summary.period.index = 1
    /\ summary.period.endAt = toISOString(now)
    /\ summary.period.startAt # summary.period.endAt

\* C20: an index that an earlier getPeriods() returned is found by a later
\* getPeriodSummary, however many snapshots were appended in between.
C20_AppendTolerated ==
    [][(pc = "periods" /\ SummaryStep
        /\ \E k \in 1..Len(periods) : periods[k].index = call'.periodIndex)
          => summary'.status = "ok"]_vars

C20_Witness ==
    /\ pc = "summary"
    /\ call.outdated
    /\ Len(table) = 2
    /\ call.periodIndex = 0
    /\ summary.status = "ok"
    /\ ~summary.period.isCurrent

----------------------------------------------------------------------------
(* The client: Dashboard and HistoricalPeriods *)

\* Dashboard: periods.filter(p => !p.isCurrent)
historicalPeriods(ps) == SelectSeq(ps, LAMBDA p : ~p.isCurrent)

\* HistoricalPeriods: if (periods.length > 0 && !selectedPeriod)
\* setSelectedPeriod(periods[0]), in both effects that run when the periods
\* arrive
initialSelection(ps, sel) ==
    IF Len(ps) > 0 /\ sel = NoPeriod THEN ps[1] ELSE sel

\* the Dashboard renders HistoricalPeriods with the periods it fetched
ShowHistoricalPeriods ==
    /\ UNCHANGED auxVars
    /\ pc = "periods"
    /\ selectedPeriod' =
          initialSelection(historicalPeriods(periods), selectedPeriod)
    /\ UNCHANGED <<storeVars, snapshots, periods, deltaVars, calcVars, pc>>

NextClient == Next \/ ShowHistoricalPeriods

SpecClient == Init /\ [][NextClient]_vars

\* C24: when the historical periods are loaded and none is selected yet,
\* HistoricalPeriods selects the most recent historical period: the
\* non-current period with the largest index among those getPeriods gave.
C24_MostRecentHistoricalSelected ==
    [][(ShowHistoricalPeriods /\ selectedPeriod = NoPeriod) =>
          \A p \in Range(periods) :
              ~p.isCurrent =>
                  /\ ~selectedPeriod'.isCurrent
                  /\ selectedPeriod' \in Range(periods)
                  /\ selectedPeriod'.index >= p.index]_vars

----------------------------------------------------------------------------
(* A store with rows of the earlier persistence layer, whose payloads are    *)
(* JSON-encoded twice                                                        *)

\* a payload as the earlier persistence layer stored it
EncodedTwice(value) == [layers |-> 2, data |-> value]

Payloads == {JSONstringify(d) : d \in LiveDatasets}
               \cup {EncodedTwice(d) : d \in LiveDatasets}

\* the tables of at most MaxSnapshots rows inserted at non-decreasing times
LegacyTables ==
    {t \in SeqUpTo([id : 1..MaxSnapshots, created_at : 0..MaxTime,
                    timezone : {"Asia/Shanghai"}, raw_json : Payloads],
                   MaxSnapshots) :
        /\ \A k \in 1..Len(t) : t[k].id = k
        /\ \A k \in 1..(Len(t) - 1) : t[k].created_at <= t[k + 1].created_at}

InitLegacy ==
    /\ table \in LegacyTables
    /\ listing \in getSnapshots(table)
    /\ now = MaxTime
    /\ live \in LiveDatasets
    /\ snapshots = << >>
    /\ periods = << >>
    /\ selectedPeriod = NoPeriod
    /\ startData = << >>
    /\ endData = << >>
    /\ meId = NoId
    /\ delta = NoDelta
    /\ twin = NoDelta
    /\ call = NoCall
    /\ summary = NoSummary
    /\ detail = NoDetail
    /\ NoAux
    /\ pc = "idle"

NextLegacy == GetPeriodSummary

SpecLegacy == InitLegacy /\ [][NextLegacy]_vars

\* the rows with every payload encoded once
EncodedOnce(rows) ==
    [k \in 1..Len(rows) |->
        [rows[k] EXCEPT !.raw_json = JSONstringify(@.data)]]

\* C23: a payload stored JSON-encoded twice decodes to the same dataset as
\* the payload stored encoded once, wherever getPeriodSummary reads one (end
\* of period 0, start snapshot, end of a later closed period): the start and
\* end datasets and the ranking are those of the store with every payload
\* encoded once.
C23_OneExtraLayerUnwrapped ==
    (pc = "summary" /\ summary.status = "ok") =>
        LET once == getPeriodSummary(EncodedOnce(snapshots), EncodedOnce(table),
                                     live, now, call.periodIndex, meId)
        IN  /\ startData = once.startData
            /\ endData = once.endData
            /\ summary.ranking = once.ranking

\* the start snapshot and the end snapshot of period 1 both encoded twice
C23_Witness ==
    /\ pc = "summary" /\ summary.status = "ok"
    /\ Len(table) = 2
    /\ call.periodIndex = 1
    /\ \A k \in 1..2 : table[k].raw_json.layers = 2
    /\ startData = << >>
    /\ endData # << >>
    /\ Len(summary.ranking) = 1

\* the end snapshot of period 0 encoded twice
C23_WitnessZero ==
    /\ pc = "summary" /\ summary.status = "ok"
    /\ Len(table) = 1
    /\ call.periodIndex = 0
    /\ table[1].raw_json.layers = 2
    /\ endData # << >>

\* the start snapshot of the current period encoded twice
C23_WitnessStart ==
    /\ pc = "summary" /\ summary.status = "ok"
    /\ Len(table) = 1
    /\ call.periodIndex = 1
    /\ table[1].raw_json.layers = 2
    /\ startData # << >>

----------------------------------------------------------------------------
(* One user billed over all periods *)

\* cumulative costs of the billed user: whole micro-dollars, and one with a
\* fraction of a micro-dollar
LedgerCosts == {k * UnitsPerMicro : k \in 1..2} \cup {15}

\* the dataset in which the billed user has that cumulative cost
Cumulative(c) == << MkUser("u1", "Ann", Total(Num(c), Num(3), Num(1))) >>

CostIn(data) == data[1].usage.total.cost.v

\* stores in which the user is in every snapshot with a cost that never
\* decreases from one insertion to the next
LedgerTables ==
    {t \in SeqUpTo([id : 1..MaxSnapshots, created_at : 0..MaxTime,
                    timezone : {"Asia/Shanghai"},
                    raw_json : {JSONstringify(Cumulative(c)) : c \in LedgerCosts}],
                   MaxSnapshots) :
        /\ \A k \in 1..Len(t) : t[k].id = k
        /\ \A k \in 1..(Len(t) - 1) :
              /\ t[k].created_at <= t[k + 1].created_at
              /\ CostIn(PayloadOf(t[k])) <= CostIn(PayloadOf(t[k + 1]))}

InitLedger ==
    /\ table \in LedgerTables
    /\ listing \in getSnapshots(table)
    /\ now = MaxTime
    /\ live \in {Cumulative(c) : c \in LedgerCosts}
    /\ \A k \in 1..Len(table) : CostIn(PayloadOf(table[k])) <= CostIn(live)
    /\ snapshots = << >>
    /\ periods = << >>
    /\ selectedPeriod = NoPeriod
    /\ startData = << >>
    /\ endData = << >>
    /\ meId = "u1"
    /\ delta = NoDelta
    /\ twin = NoDelta
    /\ call = NoCall
    /\ summary = NoSummary
    /\ detail = NoDetail
    /\ NoAux
    /\ pc = "idle"

\* the cost of the caller's own entry in a summary, 0 when it has none
ownCost(s) ==
    LET me == findById(s.ranking, meId)
    IN  IF s.status = "ok" /\ me # NullUser THEN me.cost ELSE 0

\* getPeriodSummary(i, meId) for each index i of 0..N, one after the other
BillAllPeriods ==
    /\ pc = "idle"
    /\ billed' = [k \in 1..(Len(listing) + 1) |->
                     ownCost(getPeriodSummary(listing, table, live, now,
                                              k - 1, meId))]
    /\ pc' = "billed"
    /\ UNCHANGED <<storeVars, snapshots, periods, selectedPeriod, deltaVars,
                   calcVars, apiVars>>

NextLedger == BillAllPeriods

SpecLedger == InitLedger /\ [][NextLedger]_vars

RECURSIVE SumOf(_, _)
SumOf(costs, n) == IF n = 0 THEN 0 ELSE SumOf(costs, n - 1) + costs[n]

\* C26: no cost is lost or billed twice: for a user who is in every snapshot
\* and in the live dataset with a cumulative cost that never decreases, the
\* costs of the periods 0..N add up to the user's live cumulative cost.
C26_CostsAddUp ==
    pc = "billed" => SumOf(billed, Len(billed)) = CostIn(live)

----------------------------------------------------------------------------
(* The admin session of the ApiClient: ensureValidToken and login          *)

MaxClockSeconds == 24
ElapseSeconds == 6

skewMs == 10000
maxRetries == 3

\* 2 ^ n, for Math.pow(2, retries - 1)
RECURSIVE pow2(_)
pow2(n) == IF n = 0 THEN 1 ELSE 2 * pow2(n - 1)

\* What the login endpoint may answer: the request fails, the status is not
\* ok, or a body { success, token, expiresIn } arrives; token "" stands for a
\* missing or empty token, a missing expiresIn makes the sum NaN.
LoginResponses ==
    { [fails |-> TRUE, ok |-> FALSE, success |-> FALSE, token |-> "",
       expiresIn |-> Missing],
      [fails |-> FALSE, ok |-> FALSE, success |-> FALSE, token |-> "",
       expiresIn |-> Missing],
      [fails |-> FALSE, ok |-> TRUE, success |-> FALSE, token |-> "t1",
       expiresIn |-> Num(20000)],
      [fails |-> FALSE, ok |-> TRUE, success |-> TRUE, token |-> "",
       expiresIn |-> Num(20000)],
      [fails |-> FALSE, ok |-> TRUE, success |-> TRUE, token |-> "t1",
       expiresIn |-> Num(20000)],
      [fails |-> FALSE, ok |-> TRUE, success |-> TRUE, token |-> "t2",
       expiresIn |-> Num(12000)],
      [fails |-> FALSE, ok |-> TRUE, success |-> TRUE, token |-> "t2",
       expiresIn |-> Missing] }

\* Date.now() + data.expiresIn
expiryOf(t, expiresIn) ==
    IF expiresIn.k = "num" THEN Num(t + expiresIn.v) ELSE NonFinite

\* this.token && Date.now() + this.skewMs < this.expiresAt
tokenValid_inverted(c, t) ==
    c.token # NoToken /\ c.expiresAt.k = "num" /\ t + skewMs > c.expiresAt.v

tokenValid(c, t) ==
    c.token # NoToken /\ c.expiresAt.k = "num" /\ t + skewMs < c.expiresAt.v

\* the response passes the three tests of the try block
accepted(response) ==
    ~response.fails /\ response.ok /\ response.success /\ response.token # ""

InitLogin ==
    /\ table = << >>
    /\ listing = << >>
    /\ now = 0
    /\ live = << >>
    /\ snapshots = << >>
    /\ periods = << >>
    /\ selectedPeriod = NoPeriod
    /\ startData = << >>
    /\ endData = << >>
    /\ meId = NoId
    /\ delta = NoDelta
    /\ twin = NoDelta
    /\ call = NoCall
    /\ summary = NoSummary
    /\ detail = NoDetail
    /\ NoAux
    /\ pc = "idle"

restVars ==
    <<storeVars, snapshots, periods, selectedPeriod, deltaVars, calcVars,
      billed, upstream, fetch, http, pc>>

\* time passes while no call of the client is running
Elapse ==
    /\ loginCall.state \in {"idle", "returned", "threw"}
    /\ dateNow + ElapseSeconds * 1000 <= MaxClockSeconds * 1000
    /\ dateNow' = dateNow + ElapseSeconds * 1000
    /\ loginCall' = NoLogin
    /\ UNCHANGED <<client, restVars>>

\* ensureValidToken(): return at once with a token that is valid for more than
\* the skew, else enter login() with retries = 0.  A call is entered while the
\* clock leaves room for its backoff timers.
EnsureValidToken ==
    /\ loginCall.state \in {"idle", "returned", "threw"}
    /\ dateNow + pow2(maxRetries - 1) * 1000 <= MaxClockSeconds * 1000
    /\ loginCall' = [state |-> IF tokenValid(client, dateNow) THEN "returned"
                               ELSE "trying",
                     retries |-> 0, sent |-> 0, at |-> dateNow,
                     entered |-> client]
    /\ UNCHANGED <<client, dateNow, restVars>>

\* one pass of the while loop of login(): the request and what its response
\* leads to
LoginRequest ==
    /\ loginCall.state = "trying"
    /\ loginCall.retries < maxRetries
    /\ \E response \in LoginResponses :
        IF accepted(response)
        THEN /\ client' = [token |-> response.token,
                           expiresAt |-> expiryOf(dateNow, response.expiresIn)]
             /\ loginCall' = [loginCall EXCEPT !.state = "returned",
                                               !.sent = @ + 1]
        ELSE /\ client' = client
             /\ loginCall' =
                    [loginCall EXCEPT
                        !.retries = @ + 1,
                        !.sent = @ + 1,
                        !.state = IF loginCall.retries + 1 >= maxRetries
                                  THEN "threw" ELSE "sleeping"]
    /\ UNCHANGED <<dateNow, restVars>>

\* the exponential backoff: setTimeout of 2 ^ (retries - 1) seconds
BackOff ==
    /\ loginCall.state = "sleeping"
    /\ dateNow' = dateNow + pow2(loginCall.retries - 1) * 1000
    /\ loginCall' = [loginCall EXCEPT !.state = "trying"]
    /\ UNCHANGED <<client, restVars>>

NextLogin == Elapse \/ EnsureValidToken \/ LoginRequest \/ BackOff

\* every login request is answered, and every timer fires
SpecLogin ==
    /\ InitLogin /\ [][NextLogin]_vars
    /\ WF_vars(LoginRequest) /\ WF_vars(BackOff)

\* the call was entered holding a token whose expiry was more than the skew
\* away
HeldFreshToken ==
    /\ loginCall.entered.token # NoToken
    /\ loginCall.entered.expiresAt.k = "num"
    /\ loginCall.entered.expiresAt.v - loginCall.at > 10000

LoginRuns == loginCall.state \in {"trying", "sleeping"}
LoginEnded == loginCall.state \in {"returned", "threw"}

\* where a call stands after its requests: nothing is stored before the
\* first accepted response, which ends the call; three failures end it with
\* the fields as they were; a fresh token means no request at all
LoginSound ==
    /\ loginCall.sent <= 3
    /\ LoginRuns =>
          /\ loginCall.sent = loginCall.retries
          /\ loginCall.sent < 3
          /\ client = loginCall.entered
    /\ loginCall.state = "threw" =>
          /\ loginCall.sent = 3
          /\ client = loginCall.entered
    /\ loginCall.state = "returned" /\ loginCall.sent > 0 =>
          /\ loginCall.retries = loginCall.sent - 1
          /\ client.token \notin {NoToken, ""}
          /\ client.expiresAt \in {expiryOf(dateNow, r.expiresIn) :
                                     r \in LoginResponses}
    /\ loginCall.state = "returned" /\ loginCall.sent = 0 =>
          client = loginCall.entered
    /\ HeldFreshToken => loginCall.sent = 0 /\ ~LoginRuns

\* C30: one call of login sends at most 3 login requests and terminates: it
\* stops at the first successful response, storing the token and its expiry,
\* and after 3 failures it throws leaving token and expiresAt unchanged;
\* ensureValidToken sends no login request while a token is held whose expiry
\* is more than the 10-second skew away.
C30_LoginBoundedAndTerminates ==
    /\ []LoginSound
    /\ (LoginRuns ~> LoginEnded)

\* a call that entered with an expired token threw after three requests
C30_Witness ==
    /\ loginCall.state = "threw"
    /\ loginCall.sent = 3
    /\ loginCall.entered.token # NoToken

\* ensureValidToken returned at once on a fresh token
C30_WitnessFresh ==
    /\ loginCall.state = "returned"
    /\ loginCall.sent = 0
    /\ HeldFreshToken

\* the second request of a call was accepted
C30_WitnessRetry ==
    /\ loginCall.state = "returned"
    /\ loginCall.sent = 2
    /\ client # loginCall.entered

----------------------------------------------------------------------------
(* The fetch of the current costs: ApiClient.getCurrentCosts over the      *)
(* paginated key listing of the admin API, and what is made of its result  *)

MaxKeys == 2
PageSize == 1
MaxChanges == 2

KeyIds == {"u1", "u2", "u3"}

\* the secret of a key, as the listing serves it in the field apiKey
SecretOf(id) == [k |-> "secret", of |-> id]

\* an item of the listing (ApiKeyListItem)
Item(id, tags) ==
    [id |-> id, name |-> "Ann", tags |-> tags, apiKey |-> SecretOf(id)]

TagSets == {{}, {"noshare"}}

\* the listings: up to MaxKeys keys, no key twice
Listings ==
    {l \in SeqUpTo({Item(id, tags) : id \in KeyIds, tags \in TagSets}, MaxKeys) :
        \A i, j \in 1..Len(l) : i # j => l[i].id # l[j].id}

\* GET /admin/api-keys?page=..&pageSize=..&sortBy=createdAt&sortOrder=desc:
\* the items of the page and pagination.totalPages
servePage(listing_, page, pageSize) ==
    LET from == (page - 1) * pageSize + 1
        to == IF page * pageSize < Len(listing_) THEN page * pageSize
              ELSE Len(listing_)
    IN  [items |-> IF from <= to THEN SubSeq(listing_, from, to) ELSE << >>,
         totalPages |-> (Len(listing_) + pageSize - 1) \div pageSize]

\* const { apiKey, ...rest } = item; return rest
sanitizeApiKeyItem_asIs(item) == item

sanitizeApiKeyItem(item) == [f \in DOMAIN item \ {"apiKey"} |-> item[f]]

\* !user.tags?.includes("noshare")
shareable(items) ==
    SelectSeq(items, LAMBDA user : "noshare" \notin user.tags)

\* POST /admin/api-keys/batch-stats: the usage of the keys asked for; a key
\* without usage is absent from the answer.  One number per key stands for
\* its cost, tokens and requests.
StatsAnswers ==
    { [id \in KeyIds |-> Missing],
      [id \in KeyIds |-> IF id = "u1" THEN Num(15) ELSE Num(4)] }

\* { ...sanitizedItem, usage: { total: { cost: Number(stats?.cost ?? 0), .. } } }
withUsage(item, stats) ==
    LET sanitizedItem == sanitizeApiKeyItem(item)
        n == Number(OrZero(stats[item.id]))
    IN  [f \in DOMAIN sanitizedItem \cup {"usage"} |->
            IF f = "usage" THEN [total |-> Total(n, n, n)]
            ELSE sanitizedItem[f]]

\* the tail of getCurrentCosts: filter, usage statistics, map
currentCosts(allItems, stats) ==
    LET shareableItems == shareable(allItems)
    IN  [k \in 1..Len(shareableItems) |-> withUsage(shareableItems[k], stats)]

InitFetch ==
    /\ table = << >>
    /\ listing = << >>
    /\ now = 0
    /\ live = << >>
    /\ snapshots = << >>
    /\ periods = << >>
    /\ selectedPeriod = NoPeriod
    /\ startData = << >>
    /\ endData = << >>
    /\ meId = NoId
    /\ delta = NoDelta
    /\ twin = NoDelta
    /\ call = NoCall
    /\ summary = NoSummary
    /\ detail = NoDetail
    /\ billed = << >>
    /\ client = [token |-> NoToken, expiresAt |-> Num(0)]
    /\ loginCall = NoLogin
    /\ dateNow = 0
    /\ upstream \in Listings
    /\ fetch = NoFetch
    /\ http = NoRequest
    /\ pc = "idle"

fetchRest ==
    <<table, listing, now, snapshots, periods, selectedPeriod, deltaVars,
      calcVars, billed, client, loginCall, dateNow, http, pc>>

\* the admin creates a key (the newest comes first), deletes one or changes
\* the tags of one, while the call is between two requests; what happened
\* before the call is in the listing the call starts from
UpstreamChange ==
    /\ fetch.state = "paging"
    /\ fetch.changes < MaxChanges
    /\ fetch' = [fetch EXCEPT !.changes = @ + 1]
    /\ \/ \E id \in KeyIds, tags \in TagSets :
            /\ Len(upstream) < MaxKeys
            /\ \A k \in 1..Len(upstream) : upstream[k].id # id
            /\ upstream' = << Item(id, tags) >> \o upstream
       \/ \E k \in 1..Len(upstream) :
            upstream' = [j \in 1..(Len(upstream) - 1) |->
                            IF j < k THEN upstream[j] ELSE upstream[j + 1]]
       \/ \E k \in 1..Len(upstream), tags \in TagSets :
            /\ tags # upstream[k].tags
            /\ upstream' = [upstream EXCEPT ![k].tags = tags]
    /\ UNCHANGED <<live, fetchRest>>

\* getCurrentCosts() is called: page = 1, totalPages = 1, allItems = []
FetchStart ==
    /\ fetch.state = "idle"
    /\ fetch' = [state |-> "paging", page |-> 1, totalPages |-> 1,
                 allItems |-> << >>, changes |-> 0]
    /\ UNCHANGED <<live, upstream, fetchRest>>

\* one pass of the while loop: fetchApiKeysPage(page, pageSize) throws, or
\* its items are pushed and totalPages is taken from the answer
FetchPage ==
    /\ fetch.state = "paging"
    /\ fetch.page <= fetch.totalPages
    /\ \/ fetch' = [fetch EXCEPT !.state = "threw"]
       \/ \E data \in {servePage(upstream, fetch.page, PageSize)} :
            fetch' = [fetch EXCEPT
                      !.page = fetch.page + 1,
                      !.totalPages = IF data.totalPages # 0
                                     THEN data.totalPages ELSE fetch.page,
                      !.allItems = fetch.allItems \o data.items]
    /\ UNCHANGED <<live, upstream, fetchRest>>

\* after the loop: the shareable items with their usage are returned, or
\* getUsageStats throws
FetchReturn ==
    /\ fetch.state = "paging"
    /\ fetch.page > fetch.totalPages
    /\ \/ fetch' = [fetch EXCEPT !.state = "threw"] /\ live' = live
       \/ \E stats \in StatsAnswers :
            /\ live' = currentCosts(fetch.allItems, stats)
            /\ fetch' = [fetch EXCEPT !.state = "done"]
    /\ UNCHANGED <<upstream, fetchRest>>

\* begin-period.ts stores the dataset the fetch returned
StoreFetched == fetch.state = "done" /\ beginNewPeriod

\* the calculator ranks the current period on the dataset the fetch returned
RankFetched ==
    /\ fetch.state = "done"
    /\ pc = "idle"
    /\ \E me \in MeIds :
        \E r \in {getPeriodSummary(listing, table, live, now, Len(listing), me)} :
            /\ summary' = [status |-> r.status, period |-> r.period,
                           totals |-> r.totals, ranking |-> r.ranking]
            /\ call' = [op |-> "summary", periodIndex |-> Len(listing),
                        asked |-> 1, outdated |-> FALSE,
                        fetches |-> r.fetches, reads |-> r.reads]
            /\ startData' = r.startData
            /\ endData' = r.endData
            /\ meId' = me
            /\ delta' = r.result
            /\ pc' = "summary"
    /\ UNCHANGED <<storeVars, snapshots, periods, selectedPeriod, twin, detail,
                   auxVars>>

NextFetch ==
    \/ UpstreamChange \/ FetchStart \/ FetchPage \/ FetchReturn
    \/ StoreFetched \/ RankFetched

SpecFetch == InitFetch /\ [][NextFetch]_vars

NoApiKey(record) == "apiKey" \notin DOMAIN record

\* the items with every secret replaced by the secret of another key
Rekeyed(items) ==
    [k \in 1..Len(items) |->
        [items[k] EXCEPT !.apiKey = SecretOf(IF items[k].id = "u1" THEN "u2"
                                             ELSE "u1")]]

\* C28: no record returned by getCurrentCosts carries an apiKey field, and
\* the returned dataset does not depend on the secrets; so no secret API key
\* reaches a snapshot written by begin-period or the rawStart / rawEnd of a
\* ranking entry returned to a caller.
C28_NoApiKeyLeaves ==
    /\ \A k \in 1..Len(live) : NoApiKey(live[k])
    /\ fetch.state = "done" =>
          \E stats \in StatsAnswers :
              /\ live = currentCosts(fetch.allItems, stats)
              /\ live = currentCosts(Rekeyed(fetch.allItems), stats)
    /\ \A i \in 1..Len(table) :
          \A k \in 1..Len(PayloadOf(table[i])) : NoApiKey(PayloadOf(table[i])[k])
    /\ \A k \in 1..Len(summary.ranking) :
          /\ NoApiKey(summary.ranking[k].rawStart)
          /\ NoApiKey(summary.ranking[k].rawEnd)

\* a key served with its secret was stored in a snapshot and ranked with a
\* rawStart and a rawEnd
C28_Witness ==
    /\ fetch.state = "done"
    /\ \E k \in 1..Len(fetch.allItems) :
          /\ ~NoApiKey(fetch.allItems[k])
          /\ \E j \in 1..Len(live) : live[j].id = fetch.allItems[k].id
    /\ Len(table) > 0 /\ Len(PayloadOf(table[1])) > 0
    /\ pc = "summary"
    /\ \E k \in 1..Len(summary.ranking) :
          summary.ranking[k].rawStart # NullUser

\* the keys the call was served tagged "noshare", and the others
ServedNoshare ==
    {fetch.allItems[k].id : k \in {j \in 1..Len(fetch.allItems) :
                                      "noshare" \in fetch.allItems[j].tags}}
ServedShareable ==
    {fetch.allItems[k].id : k \in {j \in 1..Len(fetch.allItems) :
                                      "noshare" \notin fetch.allItems[j].tags}}

Occurrences(data, id) == Cardinality({k \in 1..Len(data) : data[k].id = id})

\* C29: a key tagged "noshare" when it is fetched never appears in the
\* dataset returned by getCurrentCosts, whatever page it is on, hence in no
\* snapshot created from that fetch and in no current-period ranking
\* computed from it; and every other key of every page appears exactly once.
C29_NoshareExcludedOthersOnce ==
    fetch.state = "done" =>
        /\ \A id \in ServedNoshare : Occurrences(live, id) = 0
        /\ \A id \in ServedShareable : Occurrences(live, id) = 1
        /\ \A i \in 1..Len(table) :
              \A id \in ServedNoshare : Occurrences(PayloadOf(table[i]), id) = 0
        /\ \A k \in 1..Len(summary.ranking) :
              summary.ranking[k].rawEnd.id \notin ServedNoshare

----------------------------------------------------------------------------
(* The billing routes of the server and the key lookup behind them:        *)
(* validateApiKey, ApiClient.getKeyId                                      *)

\* the x-api-key header of a request: absent, empty, the secret of a key,
\* or a key nobody has
Headers ==
    {NoHeader, [k |-> "empty", of |-> ""], SecretOf("nobody")}
        \cup {SecretOf(id) : id \in KeyIds}

\* POST /apiStats/api/get-key-id: the endpoint is down or answers with a
\* status that is not ok, denies the key, answers without an id, or names
\* the key that has the secret
LegacyAnswers(listing_, apiKey) ==
    { NoAnswer,
      [ok |-> TRUE, success |-> FALSE, id |-> ""],
      [ok |-> TRUE, success |-> TRUE, id |-> ""] }
        \cup {[ok |-> TRUE, success |-> TRUE, id |-> listing_[k].id] :
                 k \in {j \in 1..Len(listing_) : listing_[j].apiKey = apiKey}}

Threw == [threw |-> TRUE, id |-> ""]
Returned(id) == [threw |-> FALSE, id |-> id]

getKeyIdFromLegacy(answer) ==
    IF answer.ok /\ answer.success /\ answer.id # ""
    THEN Returned(answer.id) ELSE Threw

\* the while loop of getKeyIdFromList from page on
RECURSIVE findInPages(_, _, _, _)
findInPages(listing_, apiKey, page, totalPages) ==
    IF page > totalPages THEN Threw
    ELSE LET data == servePage(listing_, page, PageSize)
             hits == {k \in 1..Len(data.items) : data.items[k].apiKey = apiKey}
             match == data.items[CHOOSE k \in hits : \A j \in hits : k <= j]
         IN  IF hits # {} /\ match.id # ""
             THEN Returned(match.id)
             ELSE findInPages(listing_, apiKey, page + 1,
                              IF data.totalPages # 0 THEN data.totalPages
                              ELSE page)

getKeyIdFromList(listing_, apiKey, fails) ==
    IF fails THEN Threw ELSE findInPages(listing_, apiKey, 1, 1)

getKeyId(answer, listing_, apiKey, fails) ==
    IF getKeyIdFromLegacy(answer).threw
    THEN getKeyIdFromList(listing_, apiKey, fails)
    ELSE getKeyIdFromLegacy(answer)

\* validateApiKey(request)
validateApiKey_anyKey(header, answer, listing_, fails) ==
    IF header.k \in {"absent", "empty"}
    THEN [valid |-> FALSE, userId |-> NoId]
    ELSE [valid |-> TRUE, userId |-> getKeyId(answer, listing_, header, fails).id]

validateApiKey(header, answer, listing_, fails) ==
    IF header.k \in {"absent", "empty"}
    THEN [valid |-> FALSE, userId |-> NoId]
    ELSE LET r == getKeyId(answer, listing_, header, fails)
         IN  IF r.threw THEN [valid |-> FALSE, userId |-> NoId]
             ELSE [valid |-> TRUE, userId |-> r.id]

\* parseInt of the index in the path: a number or NaN
PathIndexes == {Num(i) : i \in PeriodIndexes} \cup {NonFinite}

InitRoutes ==
    /\ table = << >>
    /\ listing = << >>
    /\ now = 0
    /\ upstream \in Listings
    /\ live = currentCosts(upstream, [id \in KeyIds |-> Num(15)])
    /\ snapshots = << >>
    /\ periods = << >>
    /\ selectedPeriod = NoPeriod
    /\ startData = << >>
    /\ endData = << >>
    /\ meId = NoId
    /\ delta = NoDelta
    /\ twin = NoDelta
    /\ call = NoCall
    /\ summary = NoSummary
    /\ detail = NoDetail
    /\ billed = << >>
    /\ client = [token |-> NoToken, expiresAt |-> Num(0)]
    /\ loginCall = NoLogin
    /\ dateNow = 0
    /\ fetch = NoFetch
    /\ http = NoRequest
    /\ pc = "idle"

routeRest ==
    <<storeVars, twin, billed, client, loginCall, dateNow, upstream, fetch>>

\* the response leaves the caller without periods, summary or detail
noBody ==
    /\ dropPeriods /\ dropSummary
    /\ pc' = "idle"

\* GET /api/periods
ServePeriods ==
    /\ http = NoRequest
    /\ \E header \in Headers, fails \in BOOLEAN :
      \E answer \in LegacyAnswers(upstream, header) :
        \E validation \in {validateApiKey(header, answer, upstream, fails)} :
          /\ IF ~validation.valid
             THEN /\ http' = [route |-> "periods", header |-> header,
                              index |-> Missing, legacy |-> answer,
                              listFails |-> fails, status |-> 401,
                              ops |-> << >>]
                  /\ noBody
             ELSE /\ http' = [route |-> "periods", header |-> header,
                              index |-> Missing, legacy |-> answer,
                              listFails |-> fails, status |-> 200,
                              ops |-> << [op |-> "getPeriods",
                                          selfId |-> NoId] >>]
                  /\ snapshots' = listing
                  /\ periods' = getPeriods(listing)
                  /\ selectedPeriod' = NoPeriod
                  /\ dropSummary
                  /\ pc' = "periods"
          /\ UNCHANGED routeRest

\* GET /api/periods/:index/summary
ServeSummary ==
    /\ http = NoRequest
    /\ \E header \in Headers, fails \in BOOLEAN, index \in PathIndexes :
      \E answer \in LegacyAnswers(upstream, header) :
        \E validation \in {validateApiKey(header, answer, upstream, fails)} :
          /\ IF ~validation.valid \/ index.k # "num"
             THEN /\ http' = [route |-> "summary", header |-> header,
                              index |-> index, legacy |-> answer,
                              listFails |-> fails,
                              status |-> IF ~validation.valid THEN 401
                                         ELSE 400,
                              ops |-> << >>]
                  /\ noBody
             ELSE \E r \in {getPeriodSummary(listing, table, live, now,
                                             index.v, validation.userId)} :
                  /\ http' = [route |-> "summary", header |-> header,
                              index |-> index, legacy |-> answer,
                              listFails |-> fails,
                              status |-> IF r.status = "ok" THEN 200 ELSE 404,
                              ops |-> << [op |-> "getPeriodSummary",
                                          selfId |-> validation.userId] >>]
                  /\ summary' = [status |-> r.status, period |-> r.period,
                                 totals |-> r.totals, ranking |-> r.ranking]
                  /\ call' = [op |-> "summary", periodIndex |-> index.v,
                              asked |-> 1, outdated |-> FALSE,
                              fetches |-> r.fetches, reads |-> r.reads]
                  /\ snapshots' = listing
                  /\ periods' = << >> /\ selectedPeriod' = NoPeriod
                  /\ startData' = r.startData
                  /\ endData' = r.endData
                  /\ meId' = validation.userId
                  /\ delta' = r.result
                  /\ detail' = NoDetail
                  /\ pc' = "summary"
          /\ UNCHANGED routeRest

\* GET /api/periods/:index/me
ServeMe ==
    /\ http = NoRequest
    /\ \E header \in Headers, fails \in BOOLEAN, index \in PathIndexes :
      \E answer \in LegacyAnswers(upstream, header) :
        \E validation \in {validateApiKey(header, answer, upstream, fails)} :
          /\ IF ~validation.valid \/ index.k # "num"
             THEN /\ http' = [route |-> "me", header |-> header,
                              index |-> index, legacy |-> answer,
                              listFails |-> fails,
                              status |-> IF ~validation.valid THEN 401
                                         ELSE 400,
                              ops |-> << >>]
                  /\ noBody
             ELSE \E r \in {getPeriodSummary(listing, table, live, now,
                                             index.v, validation.userId)} :
                  /\ summary' = [status |-> r.status, period |-> r.period,
                                 totals |-> r.totals, ranking |-> r.ranking]
                  /\ detail' = getUserDetail(summary', validation.userId)
                  /\ http' = [route |-> "me", header |-> header,
                              index |-> index, legacy |-> answer,
                              listFails |-> fails,
                              status |-> IF detail'.status = "ok" THEN 200
                                         ELSE 404,
                              ops |-> << [op |-> "getUserDetail",
                                          selfId |-> validation.userId] >>]
                  /\ call' = [op |-> "detail", periodIndex |-> index.v,
                              asked |-> 1, outdated |-> FALSE,
                              fetches |-> r.fetches, reads |-> r.reads]
                  /\ snapshots' = listing
                  /\ periods' = << >> /\ selectedPeriod' = NoPeriod
                  /\ startData' = r.startData
                  /\ endData' = r.endData
                  /\ meId' = validation.userId
                  /\ delta' = r.result
                  /\ pc' = "detail"
          /\ UNCHANGED routeRest

\* The handlers keep no state of their own: what a request is answered
\* depends on the store and the listing only, so one request after any
\* history of period closes stands for every request.
StoreThenServe == http = NoRequest /\ beginNewPeriod

NextRoutes == StoreThenServe \/ ServePeriods \/ ServeSummary \/ ServeMe

SpecRoutes == InitRoutes /\ [][NextRoutes]_vars

\* the keys of the listing whose secret is the header of the request
Owners == {k \in 1..Len(upstream) : upstream[k].apiKey = http.header}

\* the lookup endpoint named a key
Named == http.legacy.ok /\ http.legacy.success /\ http.legacy.id # ""

\* the key of the request is resolved to a user id: by the lookup endpoint,
\* or else by the listing
Resolved ==
    /\ http.header.k \notin {"absent", "empty"}
    /\ Named \/ (~http.listFails /\ Owners # {})

ResolvedId ==
    IF Named THEN http.legacy.id ELSE upstream[CHOOSE k \in Owners : TRUE].id

\* C27: every billing route answers 401 and invokes no billing-calculator
\* operation when the x-api-key header is missing or the key cannot be
\* resolved to a user id; a calculator operation runs only after getKeyId
\* succeeded, and then with the resolved user id as selfId.
C27_RoutesBehindKey ==
    http.route # "none" =>
        /\ ~Resolved =>
              /\ http.status = 401
              /\ http.ops = << >>
              /\ periods = << >> /\ summary = NoSummary /\ detail = NoDetail
        /\ \A k \in 1..Len(http.ops) :
              /\ Resolved
              /\ http.ops[k].op = "getPeriods" => http.route = "periods"
              /\ http.ops[k].op # "getPeriods" =>
                    /\ http.ops[k].selfId = ResolvedId
                    /\ meId = ResolvedId
        /\ Resolved => http.status # 401

\* a key the lookup endpoint does not name is found on the second page of
\* the listing, and the summary is computed for its owner
C27_Witness ==
    /\ http.route = "summary"
    /\ http.status = 200
    /\ ~Named
    /\ Len(upstream) > PageSize
    /\ upstream[PageSize + 1].apiKey = http.header
    /\ http.ops = << [op |-> "getPeriodSummary",
                      selfId |-> upstream[PageSize + 1].id] >>
    /\ \E k \in 1..Len(summary.ranking) : summary.ranking[k].isMe

\* a request with a key nobody has is turned away
C27_WitnessUnknown ==
    /\ http.route = "me"
    /\ http.header = SecretOf("nobody")
    /\ http.status = 401

\* a request without the header is turned away
C27_WitnessAbsent ==
    /\ http.route = "periods"
    /\ http.header = NoHeader
    /\ http.status = 401

----------------------------------------------------------------------------
(* The store as a log, and the periods over time *)

\* every row of t occurs exactly once in rows, and nothing else does
SameRows(rows, t) ==
    /\ Len(rows) = Len(t)
    /\ \A k \in 1..Len(t) :
          Cardinality({j \in 1..Len(rows) : rows[j] = t[k]}) = 1

\* t is kept as it was in u: no row changed, none removed
KeptIn(t, u) == Len(u) >= Len(t) /\ SubSeq(u, 1, Len(t)) = t

\* C21: the store is an append-only, time-ordered log: no step changes or
\* removes a stored snapshot; ids are unique and grow with insertion; and
\* getSnapshots yields every stored snapshot exactly once, in ascending order
\* of creation.
C21_AppendOnlyTimeOrderedLog ==
    [][/\ KeptIn(table, table')
       /\ \A i, j \in 1..Len(table') : i < j => table'[i].id < table'[j].id
       /\ SameRows(listing', table')
       /\ \A i, j \in 1..Len(listing') :
             i < j => listing'[i].created_at <= listing'[j].created_at]_vars

\* a step that appends a snapshot
AppendStep == Len(table') = Len(table) + 1

\* C25: historical periods are stable under appends.  Across every append,
\* each period getPeriods gave before is given after with the same index,
\* startSnapshotId and startAt, and is then non-current: a period that was
\* non-current keeps its endAt as well, and the one that was current (index
\* N) is now closed.  Holding across each append, this holds across any
\* number of them.
C25_HistoricalPeriodsStable ==
    [][AppendStep =>
          \A p \in Range(getPeriods(listing)) :
              \E q \in Range(getPeriods(listing')) :
                  /\ q.index = p.index
                  /\ q.startSnapshotId = p.startSnapshotId
                  /\ q.startAt = p.startAt
                  /\ ~q.isCurrent
                  /\ ~p.isCurrent => q.endAt = p.endAt]_vars

----------------------------------------------------------------------------
(* Duplicate ids within a dataset *)

\* the last record of a dataset with that id, NullUser when there is none
LastWithId(data, id) ==
    IF id \in IdsOf(data)
    THEN data[CHOOSE k \in 1..Len(data) :
                 /\ data[k].id = id
                 /\ \A j \in (k + 1)..Len(data) : data[j].id # id]
    ELSE NullUser

============================================================================
